---- MODULE Spec2Model ----
(***************************************************************************)
(* A model of DatabaseConnector (src/database/db_connector.py) together    *)
(* with the MySQL session it talks to.  The connector is the program; the  *)
(* backend (mysql.connector and the server holding the tables declared in  *)
(* src/data/test_data.py) is its environment and is modelled by what the   *)
(* connector's calls do to it: execute, commit, rollback, close.           *)
(*                                                                         *)
(* A statement is the text the connector builds, kept as a sequence of     *)
(* tokens; the backend parses that text again.  Python dicts are sequences *)
(* of <<key, value>> pairs (insertion order), tuples are sequences.        *)
(***************************************************************************)
EXTENDS Integers, Sequences, FiniteSets, TLC

---------------------------------------------------------------------------
(* Bounds of the model *)

\* AUTO_INCREMENT values the users table hands out
MaxId == 2

\* AUTO_INCREMENT values the products and the orders table hand out
MaxProducts == 1

MaxOrders == 1

\* orders a caller places one after the other for the users it deletes next
MaxUserOrders == 2

\* sessions the backend grants to the instances of one run
MaxSessions == 2

---------------------------------------------------------------------------
(* Python and SQL values *)

\* self.connection = None, self.cursor = None: no object held
None == 0

\* Python None as a column value (SQL NULL)
NULL == "NULL"

Names == {"testuser", "other"}

Emails == {"testuser@example.com", "different@email.com"}

\* prices in thousandths: 29.990 and 29.995
Prices == {29990, 29995}

Ids == 1..MaxId

\* the ids a table of the model can hold
Cap(t) ==
  CASE t = "users"    -> MaxId
    [] t = "products" -> MaxProducts
    [] t = "orders"   -> MaxOrders

RECURSIVE SetToSeq(_)
\* the ids of S in ascending order
SetToSeq(S) ==
  IF S = {} THEN <<>>
  ELSE LET m == CHOOSE x \in S : \A y \in S : x <= y
       IN <<m>> \o SetToSeq(S \ {m})

Reverse(s) == [i \in 1..Len(s) |-> s[Len(s) + 1 - i]]

\* first position of token tok in q, 0 when absent
IndexOf(q, tok) ==
  IF \E i \in 1..Len(q) : q[i] = tok
  THEN CHOOSE i \in 1..Len(q) : q[i] = tok /\ \A j \in 1..(i - 1) : q[j] # tok
  ELSE 0

Occurrences(q, tok) == Cardinality({i \in 1..Len(q) : q[i] = tok})

---------------------------------------------------------------------------
(* The schema: src/data/test_data.py *)

Tables == {"users", "products", "orders"}

\* the columns of the model, in the order the CREATE TABLE declares them
ColumnSeq(t) ==
  CASE t = "users"    -> <<"id", "username", "email">>
    [] t = "products" -> <<"id", "price">>
    [] t = "orders"   -> <<"id", "user_id", "product_id", "status">>

Columns(t) == {ColumnSeq(t)[i] : i \in 1..Len(ColumnSeq(t))}

StatusEnum == {"pending", "processing", "shipped", "delivered", "cancelled"}

\* a column's value when the INSERT names no value for it: its DEFAULT.
\* The email of a user whose caller names none is not modelled: it stands
\* for an email that no other user has, and is written NULL
Default(t, c) == IF t = "orders" /\ c = "status" THEN "pending" ELSE NULL

\* the NOT NULL columns that have no DEFAULT: an INSERT has to name them
Required(t) ==
  CASE t = "users"    -> {"username"}
    [] t = "products" -> {"price"}
    [] t = "orders"   -> {"user_id", "product_id"}

\* DECIMAL(10, 2) keeps two decimals, rounding half up; the other columns
\* store the value they are given
Coerce(t, c, v) ==
  IF t = "products" /\ c = "price" THEN ((v + 5) \div 10) * 10 ELSE v

EmptyDb == [t \in Tables |-> {}]

\* the session variable FOREIGN_KEY_CHECKS of the session the cursor runs
\* on: 1 in a new session, set by the callers around a TRUNCATE
VARIABLE foreign_key_checks

IdsOf(view, t) == {r.id : r \in view[t]}

\* NOT NULL, UNIQUE, ENUM and FOREIGN KEY of the CREATE TABLE statements
\* (the callers of the model pass None for usernames only)
NotNullOk(t, r) == t = "users" => r.username # NULL

\* a users table whose email column is not declared UNIQUE
UniqueUsername(view, t, r) ==
  t = "users" => \A o \in view[t] : o.id # r.id => o.username # r.username

UniqueOk(view, t, r) ==
  t = "users" =>
    \A o \in view[t] :
      o.id # r.id =>
        /\ o.username # r.username
        /\ r.email # NULL => o.email # r.email

EnumOk(t, r) == t = "orders" => r.status \in StatusEnum

\* an orders table declared without its FOREIGN KEY clauses
ForeignKeyUndeclared(view, t, r) == TRUE

ForeignKeyOk(view, t, r) ==
  (t = "orders" /\ foreign_key_checks) =>
    /\ r.user_id \in IdsOf(view, "users")
    /\ r.product_id \in IdsOf(view, "products")

RowOk(view, t, r) ==
  /\ NotNullOk(t, r)
  /\ EnumOk(t, r)
  /\ UniqueOk(view, t, r)
  /\ ForeignKeyOk(view, t, r)

\* a FOREIGN KEY declared without ON DELETE CASCADE, on a server that does
\* not look at the orders of a deleted user or product
NoAction(view, t, gone) == view

\* ON DELETE CASCADE: the orders that go with deleted users or products; the
\* server takes no referential action while FOREIGN_KEY_CHECKS is 0
Cascade(view, t, gone) ==
  IF ~foreign_key_checks THEN view
  ELSE IF t = "users"
  THEN [view EXCEPT !["orders"] = {o \in @ : o.user_id \notin gone}]
  ELSE IF t = "products"
  THEN [view EXCEPT !["orders"] = {o \in @ : o.product_id \notin gone}]
  ELSE view

\* a table some FOREIGN KEY references
Referenced(t) == t \in {"users", "products"}

---------------------------------------------------------------------------
(* The backend: what cursor.execute does with a statement and its          *)
(* parameters on the session's view of the tables.  A statement either     *)
(* runs as a whole or fails as a whole.                                    *)

\* outcome of one cursor.execute
Done(view, rowcount, lastrowid, rows, ddl) ==
  [ok |-> TRUE, view |-> view, rowcount |-> rowcount, lastrowid |-> lastrowid,
   rows |-> rows, ddl |-> ddl]

\* mysql.connector.Error raised by the statement; nothing changed
Failed(view) ==
  [ok |-> FALSE, view |-> view, rowcount |-> -1, lastrowid |-> 0,
   rows |-> <<>>, ddl |-> FALSE]

\* AUTO_INCREMENT: the next id of table t
NextId(view, t) ==
  IF view[t] = {} THEN 1
  ELSE 1 + (CHOOSE m \in IdsOf(view, t) : \A i \in IdsOf(view, t) : i <= m)

\* the decimal text of a small number, as an f-string renders it
Digits == <<"0", "1", "2", "3", "4">>

Str(n) == Digits[n + 1]

Num(s) == CHOOSE n \in 0..(Len(Digits) - 1) : Digits[n + 1] = s

IsNum(s) == \E n \in 0..(Len(Digits) - 1) : Digits[n + 1] = s

\* a condition the backend understands: <col> = %s, or <col> = <number> for
\* a numeric column
CondOk(t, cond) ==
  /\ Len(cond) = 3
  /\ cond[1] \in Columns(t)
  /\ cond[2] = "="
  /\ \/ cond[3] = "%s"
     \/ IsNum(cond[3]) /\ cond[1] \in {"id", "user_id", "product_id"}

Matching(view, t, cond, cparams) ==
  IF cond = <<>> THEN view[t]
  ELSE LET v == IF cond[3] = "%s" THEN cparams[1] ELSE Num(cond[3])
       IN {r \in view[t] : r[cond[1]] = v}

RowsInOrder(rows, desc) ==
  LET asc == SetToSeq({r.id : r \in rows})
      ids == IF desc THEN Reverse(asc) ELSE asc
  IN [i \in 1..Len(ids) |-> CHOOSE r \in rows : r.id = ids[i]]

\* the row an INSERT stores: named columns coerced, the others defaulted
NewRow(t, id, cols, vals) ==
  [c \in Columns(t) |->
     IF c = "id" THEN id
     ELSE IF \E i \in 1..Len(cols) : cols[i] = c
     THEN Coerce(t, c, vals[CHOOSE i \in 1..Len(cols) : cols[i] = c])
     ELSE Default(t, c)]

\* INSERT INTO <t> ( <cols> ) VALUES ( %s ... ): one row
InsertRow(view, t, cols, vals) ==
  LET id == NextId(view, t)
      row == NewRow(t, id, cols, vals)
  IN IF /\ t \in Tables
        /\ Len(cols) > 0
        /\ \A i \in 1..Len(cols) : cols[i] \in Columns(t) \ {"id"}
        /\ \A i, j \in 1..Len(cols) : cols[i] = cols[j] => i = j
        /\ Len(vals) = Len(cols)
        /\ \A c \in Required(t) : \E i \in 1..Len(cols) : cols[i] = c
        /\ RowOk(view, t, row)
     THEN Done([view EXCEPT ![t] = @ \cup {row}], 1, id, <<>>, FALSE)
     ELSE Failed(view)

InsertShape(q) ==
  /\ Len(q) >= 7
  /\ q[3] = "("
  /\ Occurrences(q, "(") = 2
  /\ Occurrences(q, ")") = 2
  /\ q[Len(q)] = ")"
  /\ LET c1 == IndexOf(q, ")")
     IN /\ c1 + 2 < Len(q)
        /\ q[c1 + 1] = "VALUES"
        /\ q[c1 + 2] = "("
        /\ \A i \in (c1 + 3)..(Len(q) - 1) : q[i] = "%s"
        /\ Len(q) - c1 - 3 = c1 - 4

InsertCols(q) == SubSeq(q, 4, IndexOf(q, ")") - 1)

ExecInsert(view, q, params) ==
  IF InsertShape(q) /\ Len(params) = Occurrences(q, "%s")
  THEN InsertRow(view, q[2], InsertCols(q), params)
  ELSE Failed(view)

RECURSIVE InsertRows(_, _, _, _)
\* the rows of one multi-row INSERT, in order; the first rejected row fails
\* the statement
InsertRows(view, t, cols, data) ==
  IF data = <<>> THEN Done(view, 0, 0, <<>>, FALSE)
  ELSE LET one == InsertRow(view, t, cols, Head(data))
       IN IF ~one.ok THEN one
          ELSE LET rest == InsertRows(one.view, t, cols, Tail(data))
               IN IF ~rest.ok THEN rest
                  ELSE Done(rest.view, 1 + rest.rowcount, one.lastrowid,
                            <<>>, FALSE)

\* cursor.executemany of an INSERT: the driver sends the batch as a single
\* multi-row INSERT statement
ExecInsertMany(view, q, data) ==
  LET r == InsertRows(view, q[2], InsertCols(q), data)
  IN IF InsertShape(q)
        /\ \A i \in 1..Len(data) : Len(data[i]) = Occurrences(q, "%s")
        /\ r.ok
     THEN r
     ELSE Failed(view)

\* UPDATE <t> SET <col> = %s ... WHERE <cond>
ExecUpdate(view, q, params) ==
  LET t == q[2]
      w == IndexOf(q, "WHERE")
      sets == SubSeq(q, 4, w - 1)
      n == Len(sets) \div 3
      cond == SubSeq(q, w + 1, Len(q))
      shape == /\ Len(q) >= 4
               /\ q[3] = "SET"
               /\ w > 4
               /\ t \in Tables
               /\ Len(sets) = 3 * n
               /\ \A i \in 1..n :
                    /\ sets[3 * i - 2] \in Columns(t) \ {"id"}
                    /\ sets[3 * i - 1] = "="
                    /\ sets[3 * i] = "%s"
               /\ CondOk(t, cond)
               /\ Len(params) = n + Occurrences(cond, "%s")
      hit == Matching(view, t, cond, SubSeq(params, n + 1, Len(params)))
      \* the last assignment to a column wins
      new(r) == [c \in Columns(t) |->
                   IF \E i \in 1..n : sets[3 * i - 2] = c
                   THEN Coerce(t, c, params[CHOOSE i \in 1..n :
                          /\ sets[3 * i - 2] = c
                          /\ \A j \in (i + 1)..n : sets[3 * j - 2] # c])
                   ELSE r[c]]
      after == (view[t] \ hit) \cup {new(r) : r \in hit}
      view2 == [view EXCEPT ![t] = after]
  IN IF ~shape THEN Failed(view)
     ELSE IF /\ Cardinality(after) = Cardinality(view[t])
             /\ \A r \in after : RowOk(view2, t, r)
          THEN Done(view2, Cardinality({r \in hit : new(r) # r}), 0, <<>>, FALSE)
          ELSE Failed(view)

\* DELETE FROM <t> WHERE <cond>
ExecDelete(view, q, params) ==
  LET t == q[2]
      cond == SubSeq(q, 4, Len(q))
      shape == /\ Len(q) >= 3
               /\ q[3] = "WHERE"
               /\ t \in Tables
               /\ CondOk(t, cond)
               /\ Len(params) = Occurrences(cond, "%s")
      hit == Matching(view, t, cond, params)
  IN IF ~shape THEN Failed(view)
     ELSE Done(Cascade([view EXCEPT ![t] = @ \ hit], t, {r.id : r \in hit}),
               Cardinality(hit), 0, <<>>, FALSE)

\* SELECT ... FROM information_schema.tables | information_schema.columns
\* WHERE table_schema = %s AND table_name = %s
ExecCatalog(view, q, params) ==
  IF Len(q) # 6 \/ q[3] # "FROM" \/ q[5] # "WHERE" \/ Len(params) # 2
  THEN Failed(view)
  ELSE LET known == params[2] \in Tables
       IN IF q[4] = "information_schema.tables"
          THEN Done(view, 1, 0, <<[count |-> IF known THEN 1 ELSE 0]>>, FALSE)
          ELSE LET cs == IF known THEN ColumnSeq(params[2]) ELSE <<>>
               IN Done(view, Len(cs), 0,
                       [i \in 1..Len(cs) |-> [column_name |-> cs[i]]], FALSE)

\* SELECT <cols> FROM <t> [WHERE <cond>] [ORDER BY <o>] [LIMIT <n>]
ExecSelect(view, q, params) ==
  LET t == q[4]
      w == IndexOf(q, "WHERE")
      o == IndexOf(q, "ORDER BY")
      l == IndexOf(q, "LIMIT")
      condEnd == IF o > 0 THEN o - 1 ELSE IF l > 0 THEN l - 1 ELSE Len(q)
      cond == IF w = 0 THEN <<>> ELSE SubSeq(q, w + 1, condEnd)
      tail == IF w > 0 THEN w ELSE IF o > 0 THEN o ELSE IF l > 0 THEN l
              ELSE Len(q) + 1
      shape == /\ Len(q) >= 4
               /\ q[3] = "FROM"
               /\ q[2] \in {"*", "COUNT(*) as count"}
               /\ t \in Tables
               /\ tail = 5
               /\ w > 0 => CondOk(t, cond) /\ Len(params) = Occurrences(cond, "%s")
               /\ w = 0 => Len(params) = 0
               /\ o > 0 => /\ o > w
                           /\ o + 1 <= Len(q)
                           /\ q[o + 1] \in {"id", "id DESC"}
                           /\ (IF l > 0 THEN l ELSE Len(q) + 1) = o + 2
               /\ l > 0 => /\ l > o
                           /\ l > w
                           /\ l + 1 = Len(q)
                           /\ IsNum(q[l + 1])
      hit == Matching(view, t, cond, params)
      sorted == RowsInOrder(hit, o > 0 /\ q[o + 1] = "id DESC")
      limited == IF l > 0 /\ Num(q[l + 1]) < Len(sorted)
                 THEN SubSeq(sorted, 1, Num(q[l + 1]))
                 ELSE sorted
  IN IF ~shape THEN Failed(view)
     ELSE IF q[2] = "*" THEN Done(view, Len(limited), 0, limited, FALSE)
     ELSE Done(view, 1, 0, <<[count |-> Cardinality(hit)]>>, FALSE)

\* TRUNCATE TABLE <t>: DDL.  A statement that parses ends the open
\* transaction with a commit before it runs (ddl), and the server refuses it
\* for an unknown table and, while FOREIGN_KEY_CHECKS is 1, for a table a
\* FOREIGN KEY references
ExecTruncateUnder(view, q, checks) ==
  IF Len(q) # 2 THEN Failed(view)
  ELSE IF q[2] \in Tables /\ ~(Referenced(q[2]) /\ checks)
  THEN Done([view EXCEPT ![q[2]] = {}], 0, 0, <<>>, TRUE)
  ELSE [Failed(view) EXCEPT !.ddl = TRUE]

\* the statement under the session's FOREIGN_KEY_CHECKS
ExecTruncate(view, q) == ExecTruncateUnder(view, q, foreign_key_checks)

\* cursor.execute(query, params) on an open cursor
Execute(view, q, params) ==
  IF q = <<>> THEN Failed(view)
  ELSE CASE q[1] = "INSERT INTO"    -> ExecInsert(view, q, params)
         [] q[1] = "UPDATE"         -> ExecUpdate(view, q, params)
         [] q[1] = "DELETE FROM"    -> ExecDelete(view, q, params)
         [] q[1] = "SELECT"         ->
              IF Len(q) >= 4 /\ q[4] \in {"information_schema.tables",
                                          "information_schema.columns"}
              THEN ExecCatalog(view, q, params)
              ELSE ExecSelect(view, q, params)
         [] q[1] = "TRUNCATE TABLE" -> ExecTruncate(view, q)
         [] OTHER                   -> Failed(view)

---------------------------------------------------------------------------
(* The connector: src/database/db_connector.py *)

VARIABLES
  connection,  \* self.connection: None or the session held
  cursor,      \* self.cursor: None or the cursor held (named by its session)
  sessions,    \* backend: each session "unopened", "open" or "closed"
  cursors,     \* driver: each session's cursor "none", "open" or "closed"
  committed,   \* backend: the committed rows of every table
  working,     \* backend: the rows as the held session sees them
  scope,       \* the with block of the caller: "out", "body" or "raised"
  last,        \* the call that ended last: arguments, result, driver calls
  idle         \* the fields of the instance that is not making the call

vars == <<connection, cursor, sessions, cursors, committed, working, scope,
          last, foreign_key_checks, idle>>

Sessions == 1..MaxSessions

\* a session the backend dropped between connect() and cursor()
Lost == MaxSessions + 1

\* connection.is_connected()
is_connected(c) == c \in Sessions /\ sessions[c] = "open"

\* what a call hands back to its caller
RetInt(n) == [kind |-> "int", n |-> n, rows |-> <<>>, exc |-> ""]

RetNone == [kind |-> "None", n |-> 0, rows |-> <<>>, exc |-> ""]

RetBool(b) == [kind |-> "bool", n |-> IF b THEN 1 ELSE 0, rows |-> <<>>,
               exc |-> ""]

RetRows(rs) == [kind |-> "list", n |-> Len(rs), rows |-> rs, exc |-> ""]

\* the exception leaves the method
Raise(e) == [kind |-> "raise", n |-> 0, rows |-> <<>>, exc |-> e]

\* dict.keys() and dict.values()
keys(data) == [i \in 1..Len(data) |-> data[i][1]]

values(data) == [i \in 1..Len(data) |-> data[i][2]]

\* ['%s'] * n
Placeholders(n) == [i \in 1..n |-> "%s"]

\* how a data call ends: its result, the driver calls it made in order (a
\* call that raised is written with a "!"), and the session's view and the
\* committed rows it leaves; sent lists the statements of a script that
\* went to the backend
Outcome(ret, drv, w, c) ==
  [ret |-> ret, drv |-> drv, working |-> w, committed |-> c, sent |-> <<>>]

\* the statement text a call handed to the cursor it holds
Sending(out, query) ==
  IF cursor = None THEN out ELSE [out EXCEPT !.sent = <<query>>]

\* the committed rows once statement result r is in: DDL has committed
AfterExecute(r) == IF r.ddl THEN r.view ELSE committed

\* connection.rollback() of an except branch, after driver calls drv; on a
\* closed session the driver raises and the exception leaves the method
Rollback(drv, bad, w, c) ==
  IF connection = None
  THEN Outcome(Raise("AttributeError"), drv, w, c)
  ELSE IF is_connected(connection)
  THEN Outcome(bad, Append(drv, "rollback"), c, c)
  ELSE Outcome(Raise("Error"), Append(drv, "rollback!"), w, c)

\* connection.commit() raises Error: on a session that is not open, and
\* where the backend refuses it, which it can only where something is to be
\* committed
CommitRefused(r, fault) ==
  \/ ~is_connected(connection)
  \/ fault /\ r.view # AfterExecute(r)

\* try: cursor.execute(...); connection.commit(); return good
\* except Error: connection.rollback(); return bad
\* with r the statement's result on an open cursor
TryCommit(r, fault, good, bad) ==
  IF cursor = None
  THEN Outcome(Raise("AttributeError"), <<>>, working, committed)
  ELSE IF cursors[cursor] # "open"
  THEN Rollback(<<"execute!">>, bad, working, committed)
  ELSE IF ~r.ok
  THEN Rollback(<<"execute!">>, bad, r.view, AfterExecute(r))
  ELSE IF CommitRefused(r, fault)
  THEN Rollback(<<"execute", "commit!">>, bad, r.view, AfterExecute(r))
  ELSE Outcome(good, <<"execute", "commit">>, r.view, r.view)

\* execute_query returning None for an empty result ("return rows or None")
execute_query_falsy(query, params, fetchRaises) ==
  IF cursor = None
  THEN Outcome(Raise("AttributeError"), <<>>, working, committed)
  ELSE IF cursors[cursor] # "open"
  THEN Outcome(RetNone, <<"execute!">>, working, committed)
  ELSE LET r == Execute(working, query, params)
       IN IF r.ok /\ r.rows # <<>>
          THEN Outcome(RetRows(r.rows), <<"execute", "fetchall">>, r.view,
                       AfterExecute(r))
          ELSE Outcome(RetNone, <<"execute", "fetchall">>, r.view,
                       AfterExecute(r))

\* execute_query: lines 50-66.  fetchall of a statement that has no result
\* set raises InterfaceError in some driver versions and returns [] in others
execute_query_outcome(query, params, fetchRaises) ==
  IF cursor = None
  THEN Outcome(Raise("AttributeError"), <<>>, working, committed)
  ELSE IF cursors[cursor] # "open"
  THEN Sending(Outcome(RetNone, <<"execute!">>, working, committed), query)
  ELSE LET r == Execute(working, query, params)
       IN Sending(IF ~r.ok
                  THEN Outcome(RetNone, <<"execute!">>, r.view, AfterExecute(r))
                  ELSE IF query[1] # "SELECT" /\ fetchRaises
                  THEN Outcome(RetNone, <<"execute", "fetchall!">>, r.view,
                               AfterExecute(r))
                  ELSE Outcome(RetRows(r.rows), <<"execute", "fetchall">>,
                               r.view, AfterExecute(r)),
                  query)

\* execute_non_query without the rollback of line 85
execute_non_query_unrolled(query, params, fault) ==
  LET r == Execute(working, query, params)
      out == TryCommit(r, fault, RetInt(r.rowcount), RetInt(-1))
  IN IF out.ret = RetInt(-1)
     THEN Outcome(RetInt(-1), <<"execute!">>, r.view, AfterExecute(r))
     ELSE out

\* execute_non_query: lines 68-86
execute_non_query_outcome(query, params, fault) ==
  LET r == Execute(working, query, params)
  IN Sending(TryCommit(r, fault, RetInt(r.rowcount), RetInt(-1)), query)

\* insert: lines 99-101
InsertQuery(table, columns) ==
  <<"INSERT INTO", table, "(">> \o columns \o <<")", "VALUES", "(">>
    \o Placeholders(Len(columns)) \o <<")">>

\* insert returning cursor.rowcount in place of cursor.lastrowid
insert_rowcount(table, data, fault) ==
  LET r == Execute(working, InsertQuery(table, keys(data)), values(data))
  IN TryCommit(r, fault, RetInt(r.rowcount), RetNone)

\* insert writing the values into the statement text (an f-string of the
\* values in place of the placeholders)
insert_interpolated(table, data, fault) ==
  LET r == Execute(working, InsertQuery(table, keys(data)), values(data))
  IN Sending(TryCommit(r, fault, RetInt(r.lastrowid), RetNone),
             <<"INSERT INTO", table, "(">> \o keys(data)
               \o <<")", "VALUES", "(">> \o values(data) \o <<")">>)

\* insert: lines 88-110
insert_outcome(table, data, fault) ==
  LET r == Execute(working, InsertQuery(table, keys(data)), values(data))
  IN Sending(TryCommit(r, fault, RetInt(r.lastrowid), RetNone),
             InsertQuery(table, keys(data)))

\* insert_many sending the batch row by row, each row a statement of its own
\* that is committed when it is accepted
insert_many_rowwise(table, columns, data, fault) ==
  LET first == Execute(working, InsertQuery(table, columns), Head(data))
      r == ExecInsertMany(working, InsertQuery(table, columns), data)
  IN IF cursor # None /\ cursors[cursor] = "open" /\ ~r.ok /\ first.ok
     THEN Outcome(RetInt(-1), <<"execute", "commit", "execute!", "rollback">>,
                  first.view, first.view)
     ELSE TryCommit(r, fault, RetInt(r.rowcount), RetInt(-1))

\* insert_many: lines 112-135; executemany is the one execute of the log
insert_many_outcome(table, columns, data, fault) ==
  LET r == ExecInsertMany(working, InsertQuery(table, columns), data)
  IN Sending(TryCommit(r, fault, RetInt(r.rowcount), RetInt(-1)),
             InsertQuery(table, columns))

RECURSIVE SetClause(_)
\* ', '.join([f"{k} = %s" for k in data.keys()])
SetClause(ks) ==
  IF ks = <<>> THEN <<>>
  ELSE <<Head(ks), "=", "%s">> \o SetClause(Tail(ks))

\* update: lines 151-152
UpdateQuery(table, data, condition) ==
  <<"UPDATE", table, "SET">> \o SetClause(keys(data)) \o <<"WHERE">>
    \o condition

\* update binding the payload values last key first
update_values_reversed(table, data, condition, condition_params, fault) ==
  execute_non_query_outcome(UpdateQuery(table, data, condition),
                            Reverse(values(data)) \o condition_params, fault)

\* update: lines 137-155
update_outcome(table, data, condition, condition_params, fault) ==
  execute_non_query_outcome(UpdateQuery(table, data, condition),
                            values(data) \o condition_params, fault)

\* delete: line 169
DeleteQuery(table, condition) == <<"DELETE FROM", table, "WHERE">> \o condition

\* delete that reports the rows its statement matched and leaves the
\* statement uncommitted and undone
delete_rolled_back(table, condition, condition_params, fault) ==
  LET out == execute_non_query_outcome(DeleteQuery(table, condition),
                                       condition_params, fault)
  IN [out EXCEPT !.working = committed, !.committed = committed]

\* delete: lines 157-170
delete_outcome(table, condition, condition_params, fault) ==
  execute_non_query_outcome(DeleteQuery(table, condition), condition_params,
                            fault)

\* limit=None
NoLimit == -1

\* select: lines 189-196.  An absent condition or order_by is the empty text
SelectQuery(table, columns, condition, order_by, limit) ==
  <<"SELECT", columns, "FROM", table>>
    \o (IF condition # <<>> THEN <<"WHERE">> \o condition ELSE <<>>)
    \o (IF order_by # "" THEN <<"ORDER BY", order_by>> ELSE <<>>)
    \o (IF limit # NoLimit /\ limit # 0 THEN <<"LIMIT", Str(limit)>> ELSE <<>>)

\* select: lines 172-198
select_outcome(table, columns, condition, condition_params, order_by, limit) ==
  execute_query_outcome(SelectQuery(table, columns, condition, order_by, limit),
                        condition_params, FALSE)

\* count: lines 213-215
CountQuery(table, condition) ==
  <<"SELECT", "COUNT(*) as count", "FROM", table>>
    \o (IF condition # <<>> THEN <<"WHERE">> \o condition ELSE <<>>)

\* count reading a count of zero as a failed query ("result[0]['count'] or -1")
count_falsy(table, condition, condition_params) ==
  LET out == execute_query_outcome(CountQuery(table, condition),
                                   condition_params, FALSE)
  IN IF out.ret.kind = "raise" THEN out
     ELSE [out EXCEPT !.ret =
             IF /\ out.ret.kind = "list"
                /\ out.ret.rows # <<>>
                /\ out.ret.rows[1].count # 0
             THEN RetInt(out.ret.rows[1].count)
             ELSE RetInt(-1)]

\* count: lines 200-218
count_outcome(table, condition, condition_params) ==
  LET out == execute_query_outcome(CountQuery(table, condition),
                                   condition_params, FALSE)
  IN IF out.ret.kind = "raise" THEN out
     ELSE [out EXCEPT !.ret =
             IF out.ret.kind = "list" /\ out.ret.rows # <<>>
             THEN RetInt(out.ret.rows[1].count)
             ELSE RetInt(-1)]

\* DBConfig.DATABASE
DATABASE == "test_database"

CatalogQuery(relation) ==
  <<"SELECT", IF relation = "information_schema.tables"
              THEN "COUNT(*) as count" ELSE "column_name",
    "FROM", relation, "WHERE", "table_schema = %s AND table_name = %s">>

\* table_exists: lines 220-228
table_exists_outcome(table_name) ==
  LET out == execute_query_outcome(CatalogQuery("information_schema.tables"),
                                   <<DATABASE, table_name>>, FALSE)
  IN IF out.ret.kind = "raise" THEN out
     ELSE [out EXCEPT !.ret =
             IF out.ret.kind = "list" /\ out.ret.rows # <<>>
             THEN RetBool(out.ret.rows[1].count > 0)
             ELSE RetBool(FALSE)]

\* get_table_columns: lines 230-238
get_table_columns_outcome(table_name) ==
  execute_query_outcome(CatalogQuery("information_schema.columns"),
                        <<DATABASE, table_name>>, FALSE)

\* truncate_table answering True without sending the statement
truncate_table_unexecuted(table_name, fault) ==
  IF cursor = None
  THEN Outcome(Raise("AttributeError"), <<>>, working, committed)
  ELSE IF cursors[cursor] # "open"
  THEN Outcome(RetBool(FALSE), <<"execute!">>, working, committed)
  ELSE Outcome(RetBool(TRUE), <<"commit">>, working, working)

\* truncate_table: lines 240-248; the except branch does not roll back.
\* w and c are the session's view and the committed rows the call finds,
\* and checks the session's FOREIGN_KEY_CHECKS
truncate_table_from(table_name, fault, w, c, checks) ==
  LET r == ExecTruncateUnder(w, <<"TRUNCATE TABLE", table_name>>, checks)
      after == IF r.ddl THEN r.view ELSE c
  IN IF cursor = None
     THEN Outcome(Raise("AttributeError"), <<>>, w, c)
     ELSE IF cursors[cursor] # "open"
     THEN Outcome(RetBool(FALSE), <<"execute!">>, w, c)
     ELSE IF ~r.ok
     THEN Outcome(RetBool(FALSE), <<"execute!">>, r.view, after)
     ELSE IF ~is_connected(connection) \/ (fault /\ r.view # after)
     THEN Outcome(RetBool(FALSE), <<"execute", "commit!">>, r.view, after)
     ELSE Outcome(RetBool(TRUE), <<"execute", "commit">>, r.view, r.view)

\* truncate_table as the instance runs it now
truncate_table_outcome(table_name, fault) ==
  truncate_table_from(table_name, fault, working, committed,
                      foreign_key_checks)

\* the three truncate_table calls of the db fixture, conftest.py lines
\* 59-61, with FOREIGN_KEY_CHECKS at checks
FixtureTruncates(checks) ==
  LET o == truncate_table_from("orders", FALSE, working, committed, checks)
      p == truncate_table_from("products", FALSE, o.working, o.committed,
                               checks)
      u == truncate_table_from("users", FALSE, p.working, p.committed, checks)
  IN Outcome([RetNone EXCEPT !.kind = "self"],
             <<"execute">> \o o.drv \o p.drv \o u.drv
               \o <<"execute", "commit">>,
             u.working, u.working)

\* a db fixture that leaves FOREIGN_KEY_CHECKS as it finds it
db_checked ==
  IF cursor = None THEN Outcome(Raise("AttributeError"), <<>>, working, committed)
  ELSE IF cursors[cursor] # "open"
  THEN Outcome(Raise("Error"), <<"execute!">>, working, committed)
  ELSE FixtureTruncates(foreign_key_checks)

\* the db fixture: conftest.py lines 51-65.  Its own cursor.execute and
\* connection.commit are outside any try; the results of truncate_table
\* are dropped
db_outcome ==
  IF cursor = None THEN Outcome(Raise("AttributeError"), <<>>, working, committed)
  ELSE IF cursors[cursor] # "open"
  THEN Outcome(Raise("Error"), <<"execute!">>, working, committed)
  ELSE FixtureTruncates(FALSE)

RECURSIVE split_terminated(_)
\* a split that keeps only the segments a ';' ends
split_terminated(script) ==
  LET i == IndexOf(script, ";")
  IN IF i = 0 THEN <<>>
     ELSE <<SubSeq(script, 1, i - 1)>>
            \o split_terminated(SubSeq(script, i + 1, Len(script)))

RECURSIVE split(_)
\* script.split(';')
split(script) ==
  LET i == IndexOf(script, ";")
  IN IF i = 0 THEN <<script>>
     ELSE <<SubSeq(script, 1, i - 1)>> \o split(SubSeq(script, i + 1, Len(script)))

RECURSIVE strip(_)
\* statement.strip(): blanks (" ") off both ends
strip(statement) ==
  IF statement = <<>> THEN <<>>
  ELSE IF Head(statement) = " " THEN strip(Tail(statement))
  ELSE IF statement[Len(statement)] = " "
  THEN strip(SubSeq(statement, 1, Len(statement) - 1))
  ELSE statement

\* the statements of a script that reach the backend: split on ';',
\* stripped, the empty ones dropped (lines 253-256)
Statements(script) ==
  LET statements == split(script)
      stripped == [i \in 1..Len(statements) |-> strip(statements[i])]
  IN SelectSeq(stripped, LAMBDA statement : statement # <<>>)

\* cursor.execute(statement) answered r, in a run that had sent run.sent
Ran(run, statement, r) ==
  [ok |-> r.ok, view |-> r.view,
   committed |-> IF r.ddl THEN r.view ELSE run.committed,
   sent |-> Append(run.sent, statement)]

\* one turn of the for loop of execute_script: the statement goes to the
\* backend unless an earlier one was refused
RunStep(run, statement) ==
  IF ~run.ok THEN run
  ELSE Ran(run, statement, Execute(run.view, statement, <<>>))

\* the for loop of execute_script on an open cursor: each statement in
\* turn, stopping at the first one the backend refuses
RunStatements(view, c, statements) ==
  LET run[i \in 0..Len(statements)] ==
        IF i = 0
        THEN [ok |-> TRUE, view |-> view, committed |-> c, sent |-> <<>>]
        ELSE RunStep(run[i - 1], statements[i])
  IN run[Len(statements)]

\* the driver calls of a script run: one execute per statement sent, the
\* last of them raising when the run failed
Executes(run) ==
  [i \in 1..Len(run.sent) |->
     IF i = Len(run.sent) /\ ~run.ok THEN "execute!" ELSE "execute"]

\* the end of execute_script after the loop: the commit of line 257, or the
\* except branch of lines 259-262
ScriptEnd(run, fault) ==
  [(IF ~run.ok
    THEN Rollback(Executes(run), RetBool(FALSE), run.view, run.committed)
    ELSE IF ~is_connected(connection) \/ (fault /\ run.view # run.committed)
    THEN Rollback(Append(Executes(run), "commit!"), RetBool(FALSE), run.view,
                  run.committed)
    ELSE Outcome(RetBool(TRUE), Append(Executes(run), "commit"),
                 run.view, run.view))
   EXCEPT !.sent = run.sent]

\* execute_script: lines 250-262
execute_script_outcome(script, fault) ==
  IF cursor = None
  THEN Outcome(Raise("AttributeError"), <<>>, working, committed)
  ELSE IF cursors[cursor] # "open"
  THEN Rollback(IF Statements(script) = <<>> THEN <<"commit!">>
                ELSE <<"execute!">>,
                RetBool(FALSE), working, committed)
  ELSE ScriptEnd(RunStatements(working, committed, Statements(script)), fault)

\* connect dropping what the instance holds when it fails
connect_resetting(answer, s) ==
  IF answer = "established"
  THEN [ret |-> RetBool(TRUE), drv |-> <<"connect", "cursor">>,
        connection |-> s, cursor |-> s,
        sessions |-> [sessions EXCEPT ![s] = "open"],
        cursors |-> [cursors EXCEPT ![s] = "open"]]
  ELSE [ret |-> RetBool(FALSE), drv |-> <<"connect!">>,
        connection |-> None, cursor |-> None,
        sessions |-> sessions, cursors |-> cursors]

\* connect: lines 22-30, with answer what the backend does and s the session
\* it grants: "refused" fails connect(), "lost" grants the session and drops
\* it before cursor(), which then raises
connect_outcome(answer, s) ==
  CASE answer = "established" ->
         [ret |-> RetBool(TRUE), drv |-> <<"connect", "cursor">>,
          connection |-> s, cursor |-> s,
          sessions |-> [sessions EXCEPT ![s] = "open"],
          cursors |-> [cursors EXCEPT ![s] = "open"]]
    [] answer = "lost" ->
         [ret |-> RetBool(FALSE), drv |-> <<"connect", "cursor!">>,
          connection |-> Lost, cursor |-> cursor,
          sessions |-> sessions, cursors |-> cursors]
    [] answer = "refused" ->
         [ret |-> RetBool(FALSE), drv |-> <<"connect!">>,
          connection |-> connection, cursor |-> cursor,
          sessions |-> sessions, cursors |-> cursors]

\* disconnect closing the cursor only
disconnect_cursor_only ==
  [ret |-> RetNone,
   drv |-> IF cursor # None THEN <<"cursor.close">> ELSE <<>>,
   connection |-> connection, cursor |-> cursor,
   sessions |-> sessions,
   cursors |-> IF cursor # None THEN [cursors EXCEPT ![cursor] = "closed"]
               ELSE cursors]

\* disconnect closing the session before the cursor
disconnect_session_first ==
  [ret |-> RetNone,
   drv |-> (IF connection # None THEN <<"is_connected">> ELSE <<>>)
           \o (IF is_connected(connection) THEN <<"connection.close">>
               ELSE <<>>)
           \o (IF cursor # None THEN <<"cursor.close">> ELSE <<>>),
   connection |-> connection, cursor |-> cursor,
   sessions |-> IF is_connected(connection)
                THEN [sessions EXCEPT ![connection] = "closed"]
                ELSE sessions,
   cursors |-> IF cursor # None THEN [cursors EXCEPT ![cursor] = "closed"]
               ELSE cursors]

\* disconnect: lines 32-37
disconnect_outcome ==
  [ret |-> RetNone,
   drv |-> (IF cursor # None THEN <<"cursor.close">> ELSE <<>>)
           \o (IF connection # None THEN <<"is_connected">> ELSE <<>>)
           \o (IF is_connected(connection) THEN <<"connection.close">>
               ELSE <<>>),
   connection |-> connection, cursor |-> cursor,
   sessions |-> IF is_connected(connection)
                THEN [sessions EXCEPT ![connection] = "closed"]
                ELSE sessions,
   cursors |-> IF cursor # None THEN [cursors EXCEPT ![cursor] = "closed"]
               ELSE cursors]

\* __enter__ raising when its connect returns False
enter_checked(answer, s) ==
  [connect_outcome(answer, s) EXCEPT !.ret =
     IF answer = "established" THEN [RetNone EXCEPT !.kind = "self"]
     ELSE Raise("ConnectionError")]

\* __enter__: lines 39-42; the result of connect is dropped
enter_outcome(answer, s) ==
  [connect_outcome(answer, s) EXCEPT !.ret = [RetNone EXCEPT !.kind = "self"]]

\* __exit__ releasing only when the body ended without an exception
exit_unless_raised ==
  IF scope.at = "raised"
  THEN [ret |-> RetNone, drv |-> <<>>, connection |-> connection,
        cursor |-> cursor, sessions |-> sessions, cursors |-> cursors]
  ELSE disconnect_outcome

\* __exit__ ending with "return True"
exit_swallowing == [disconnect_outcome EXCEPT !.ret = RetBool(TRUE)]

\* __exit__: lines 44-46
exit_outcome == disconnect_outcome

\* the methods of the connector a method calls (lines 41, 46, 155, 170, 198,
\* 217, 227, 238)
Calls(op) ==
  CASE op = "__enter__" -> <<"connect">>
    [] op = "__exit__" -> <<"disconnect">>
    [] op \in {"update", "delete"} -> <<"execute_non_query">>
    [] op = "db" -> <<"truncate_table", "truncate_table", "truncate_table">>
    [] op \in {"select", "count", "table_exists", "get_table_columns"} ->
         <<"execute_query">>
    [] OTHER -> <<>>

---------------------------------------------------------------------------
(* The arguments the callers of the model pass *)

UserData == {<<<<"username", n>>>> : n \in Names \cup {NULL}}

\* users with a username and an email, as sample_user has them
NamedUsers ==
  {<<<<"username", n>>, <<"email", e>>>> : n \in Names, e \in Emails}

\* batches of one or two such users, for the columns username, email
NamedBatches ==
  {<<<<n, e>>>> : n \in Names, e \in Emails}
    \cup {<<<<"testuser", "testuser@example.com">>, <<n, e>>>> :
             n \in Names, e \in Emails}

\* a new username, a new email, or both, for the user of an id
NamedUpdates ==
  {[table |-> "users", data |-> d,
    condition |-> [text |-> <<"id", "=", "%s">>, params |-> <<i>>]] :
     d \in {<<<<"username", n>>>> : n \in Names}
            \cup {<<<<"email", e>>>> : e \in Emails}
            \cup {<<<<"username", "other">>, <<"email", e>>>> : e \in Emails},
     i \in Ids}

ProductData == {<<<<"price", p>>>> : p \in Prices}

Order(u, p, st) == <<<<"user_id", u>>, <<"product_id", p>>, <<"status", st>>>>

\* orders of every user for the first product, an order for a product that
\* is not there, and an order in a status the ENUM does not have
OrderData ==
  {Order(u, 1, "pending") : u \in Ids}
    \cup {Order(1, MaxProducts + 1, "pending"), Order(1, 1, "invalid_status")}

Data(t) ==
  CASE t = "users"    -> UserData
    [] t = "products" -> ProductData
    [] t = "orders"   -> OrderData

\* condition and condition_params: by id, and by id with the parameter left out
ById == {[text |-> <<"id", "=", "%s">>, params |-> <<i>>] : i \in Ids}

Unbound == [text |-> <<"id", "=", "%s">>, params |-> <<>>]

NoCondition == [text |-> <<>>, params |-> <<>>]

\* batches of one or two users
UserBatches ==
  {<<<<"other">>>>, <<<<NULL>>>>}
    \cup {<<<<"testuser">>, <<b>>>> : b \in Names \cup {NULL}}

RawInsert == InsertQuery("users", <<"username">>)

RawDelete == DeleteQuery("users", <<"id", "=", "%s">>)

SelectArgs ==
  {[table |-> "users", condition |-> c, order_by |-> "", limit |-> NoLimit] :
     c \in ById \cup {NoCondition}}
    \cup {[table |-> "users", condition |-> NoCondition, order_by |-> "id DESC",
           limit |-> l] : l \in {0, 1}}
    \cup {[table |-> t, condition |-> NoCondition, order_by |-> "",
           limit |-> NoLimit] : t \in {"products", "nowhere"}}

\* scripts laid out as DROP_TABLES_SCRIPT is (blank, statement, ';', blank,
\* statement, blank: no delimiter after the last statement), scripts whose
\* last statement the backend refuses, a script that ends with its
\* delimiter and a script of empty segments
Scripts ==
  { <<" ", "DELETE FROM", "users", "WHERE", "id", "=", "1", ";", " ",
      "TRUNCATE TABLE", "orders", " ">>,
    <<"DELETE FROM", "users", "WHERE", "id", "=", "2", ";">>,
    <<"DELETE FROM", "users", "WHERE", "id", "=", "1", ";",
      "DELETE FROM", "nowhere", "WHERE", "id", "=", "1">>,
    <<"DELETE FROM", "users", "WHERE", "id", "=", "1", ";",
      "TRUNCATE TABLE", "orders", ";",
      "DELETE FROM", "nowhere", "WHERE", "id", "=", "1">>,
    <<" ", ";", ";">> }

---------------------------------------------------------------------------
(* The calls *)

Opened == Cardinality({s \in Sessions : sessions[s] # "unopened"})

\* one session for all the instances of the process, as a connection kept
\* in a class attribute would be: what a call commits or rolls back is
\* committed or rolled back for the other instance too
IdleShared(c) == [idle EXCEPT !.working = c]

\* the instance that is not calling, once a call has left c as the
\* committed rows.  Each instance holds the session its own connect opened
\* (self.connection, line 25), and a session's transaction is its own: what
\* the other session has not committed stays uncommitted in it, on top of c
Idle(c) ==
  [idle EXCEPT !.working =
     [t \in Tables |->
        (c[t] \ (committed[t] \ idle.working[t]))
          \cup (idle.working[t] \ committed[t])]]

Last(op, args, ret, drv) ==
  [op |-> op, args |-> args, ret |-> ret, drv |-> drv, calls |-> Calls(op),
   sent |-> <<>>, pre |-> working,
   preCommitted |-> committed, preConnection |-> connection,
   preCursor |-> cursor, preScope |-> scope]

Init ==
  /\ connection = None
  /\ cursor = None
  /\ sessions = [s \in Sessions |-> "unopened"]
  /\ cursors = [s \in Sessions |-> "none"]
  /\ committed = EmptyDb
  /\ working = EmptyDb
  /\ scope = [at |-> "out", opened |-> None, reraised |-> FALSE]
  /\ foreign_key_checks = TRUE
  /\ idle = [instance |-> 2, connection |-> None, cursor |-> None,
             working |-> EmptyDb, foreign_key_checks |-> TRUE]
  /\ last = [op |-> "__init__", args |-> <<>>, ret |-> RetNone, drv |-> <<>>,
             calls |-> <<>>, sent |-> <<>>,
             pre |-> EmptyDb, preCommitted |-> EmptyDb,
             preConnection |-> None, preCursor |-> None,
             preScope |-> [at |-> "out", opened |-> None, reraised |-> FALSE]]

\* a data call made outside a with block or in its body; an exception that
\* leaves the call leaves the body too
DataCall(op, args, out) ==
  /\ scope.at \in {"out", "body"}
  /\ working' = out.working
  /\ committed' = out.committed
  /\ last' = [Last(op, args, out.ret, out.drv) EXCEPT !.sent = out.sent]
  /\ scope' = IF scope.at = "body" /\ out.ret.kind = "raise"
              THEN [scope EXCEPT !.at = "raised"] ELSE scope
  /\ idle' = Idle(out.committed)
  /\ UNCHANGED <<connection, cursor, sessions, cursors, foreign_key_checks>>

\* a call that comes to commit something has two outcomes, the backend
\* accepting the commit or refusing it; any other call has one
FaultyCall(op, args, accepted, refused) ==
  \E fault \in IF refused = accepted THEN {FALSE} ELSE {FALSE, TRUE} :
    DataCall(op, args, IF fault THEN refused ELSE accepted)

\* bool(value) is False
Falsy(ret) ==
  \/ ret.kind = "None"
  \/ ret.kind \in {"bool", "int"} /\ ret.n = 0
  \/ ret.kind = "list" /\ ret.rows = <<>>

\* a lifecycle call: the fields and the backend's sessions change; a cursor
\* that is closed, or is no longer held, loses what its session had not
\* committed, and the cursor of a new session finds FOREIGN_KEY_CHECKS at 1.
\* The with statement raises the exception of its body again after an
\* __exit__ that returned a false value (reraised)
Lifecycle(op, out, at, opened) ==
  /\ connection' = out.connection
  /\ cursor' = out.cursor
  /\ sessions' = out.sessions
  /\ cursors' = out.cursors
  /\ working' = IF out.cursor # None /\ out.cursor = cursor
                   /\ out.cursors[out.cursor] = "open"
                THEN working ELSE committed
  /\ last' = Last(op, <<>>, out.ret, out.drv)
  /\ foreign_key_checks' = IF out.cursor # None /\ out.cursor = cursor
                               /\ out.cursors[out.cursor] = "open"
                            THEN foreign_key_checks ELSE TRUE
  /\ scope' = [at |-> at, opened |-> opened,
               reraised |-> /\ op = "__exit__"
                            /\ scope.at = "raised"
                            /\ Falsy(out.ret)]
  /\ UNCHANGED <<committed, idle>>

\* what the backend answers a connect: a new session while one is left to
\* open, and the loss of the session only while no open cursor is held
Answers ==
  {"refused"}
    \cup (IF Opened < MaxSessions THEN {"established"} ELSE {})
    \cup (IF cursor = None \/ cursors[cursor] # "open" THEN {"lost"} ELSE {})

\* connect: lines 22-30
connect ==
  /\ scope.at = "out"
  /\ \E answer \in Answers :
       Lifecycle("connect", connect_outcome(answer, Opened + 1), "out", None)

\* disconnect: lines 32-37
disconnect ==
  /\ scope.at = "out"
  /\ Lifecycle("disconnect", disconnect_outcome, "out", None)

\* __enter__: lines 39-42
__enter__ ==
  /\ scope.at = "out"
  /\ \E answer \in Answers :
       Lifecycle("__enter__", enter_outcome(answer, Opened + 1), "body",
                 IF answer = "established" THEN Opened + 1 ELSE None)

\* the body of the with block raises an exception of its own
body_raises ==
  /\ scope.at = "body"
  /\ scope' = [scope EXCEPT !.at = "raised"]
  /\ last' = Last("body", <<>>, Raise("Exception"), <<>>)
  /\ UNCHANGED <<connection, cursor, sessions, cursors, committed, working,
                 foreign_key_checks, idle>>

\* __exit__: lines 44-46
__exit__ ==
  /\ scope.at \in {"body", "raised"}
  /\ Lifecycle("__exit__", exit_outcome, "out", scope.opened)

\* the caller's own db.cursor.execute("SET FOREIGN_KEY_CHECKS = 0 | 1")
\* around a truncate_table; the statement is not transactional
set_foreign_key_checks ==
  /\ scope.at = "out"
  /\ cursor # None
  /\ \E b \in BOOLEAN :
       /\ foreign_key_checks' = IF cursors[cursor] = "open" THEN b
                                ELSE foreign_key_checks
       /\ last' = Last("cursor.execute",
                       [query |-> <<"SET FOREIGN_KEY_CHECKS", IF b THEN "1" ELSE "0">>],
                       IF cursors[cursor] = "open" THEN RetNone
                       ELSE Raise("Error"),
                       IF cursors[cursor] = "open" THEN <<"execute">>
                       ELSE <<"execute!">>)
  /\ UNCHANGED <<connection, cursor, sessions, cursors, committed, working,
                 scope, idle>>

execute_query ==
  \/ \E fetchRaises \in BOOLEAN :
       /\ NextId(working, "users") <= MaxId
       /\ DataCall("execute_query",
                   [query |-> RawInsert, params |-> <<"other">>],
                   execute_query_outcome(RawInsert, <<"other">>, fetchRaises))
  \/ DataCall("execute_query", [query |-> <<"SELEC">>, params |-> <<>>],
              execute_query_outcome(<<"SELEC">>, <<>>, FALSE))

execute_non_query ==
  \/ \E i \in Ids :
       FaultyCall("execute_non_query",
                  [query |-> RawDelete, params |-> <<i>>],
                  execute_non_query_outcome(RawDelete, <<i>>, FALSE),
                  execute_non_query_outcome(RawDelete, <<i>>, TRUE))
  \/ DataCall("execute_non_query",
              [query |-> <<"TRUNCATE TABLE", "users">>, params |-> <<>>],
              execute_non_query_outcome(<<"TRUNCATE TABLE", "users">>, <<>>,
                                        FALSE))

insert_into(table) ==
  \E data \in Data(table) :
    /\ NextId(working, table) <= Cap(table)
    /\ FaultyCall("insert", [table |-> table, data |-> data],
                  insert_outcome(table, data, FALSE),
                  insert_outcome(table, data, TRUE))

insert == \E table \in Tables : insert_into(table)

\* insert called in a loop for the orders of a user
insert_orders ==
  \E u \in Ids :
    /\ NextId(working, "orders") <= MaxUserOrders
    /\ FaultyCall("insert",
                  [table |-> "orders", data |-> Order(u, 1, "pending")],
                  insert_outcome("orders", Order(u, 1, "pending"), FALSE),
                  insert_outcome("orders", Order(u, 1, "pending"), TRUE))

insert_many ==
  \E data \in UserBatches :
    /\ NextId(working, "users") + Len(data) - 1 <= MaxId
    /\ FaultyCall("insert_many",
                  [table |-> "users", columns |-> <<"username">>,
                   data |-> data],
                  insert_many_outcome("users", <<"username">>, data, FALSE),
                  insert_many_outcome("users", <<"username">>, data, TRUE))

UpdateArgs ==
  {[table |-> "users", data |-> d,
    condition |-> [text |-> <<"id", "=", "%s">>, params |-> <<1>>]] :
     d \in UserData}
    \cup {[table |-> "users", data |-> <<<<"username", "other">>>>,
           condition |-> c] : c \in ById \cup {Unbound}}
    \cup {[table |-> "orders", data |-> <<<<"status", st>>>>,
           condition |-> [text |-> <<"id", "=", "%s">>, params |-> <<1>>]] :
           st \in {"shipped", "invalid_status"}}
    \cup {[table |-> "orders",
           data |-> <<<<"user_id", MaxId>>, <<"product_id", 1>>>>,
           condition |-> [text |-> <<"id", "=", "%s">>, params |-> <<1>>]]}

update ==
  \E a \in UpdateArgs :
    FaultyCall("update", a,
               update_outcome(a.table, a.data, a.condition.text,
                              a.condition.params, FALSE),
               update_outcome(a.table, a.data, a.condition.text,
                              a.condition.params, TRUE))

DeleteArgs ==
  {[table |-> "users", condition |-> c] : c \in ById \cup {Unbound}}
    \cup {[table |-> "orders",
           condition |-> [text |-> <<"id", "=", "%s">>, params |-> <<1>>]]}

delete ==
  \E a \in DeleteArgs :
    FaultyCall("delete", a,
               delete_outcome(a.table, a.condition.text, a.condition.params,
                              FALSE),
               delete_outcome(a.table, a.condition.text, a.condition.params,
                              TRUE))

select ==
  \E a \in SelectArgs :
    DataCall("select", a,
             select_outcome(a.table, "*", a.condition.text, a.condition.params,
                            a.order_by, a.limit))

count ==
  \E table \in {"users", "nowhere"} :
    \E c \in IF table = "users" THEN {NoCondition, Unbound} \cup ById
             ELSE {NoCondition} :
      DataCall("count", [table |-> table, condition |-> c],
               count_outcome(table, c.text, c.params))

table_exists ==
  \E table_name \in {"users", "nowhere"} :
    DataCall("table_exists", [table |-> table_name],
             table_exists_outcome(table_name))

get_table_columns ==
  \E table_name \in {"users"} :
    DataCall("get_table_columns", [table |-> table_name],
             get_table_columns_outcome(table_name))

truncate_table ==
  \E table_name \in {"users", "orders", "nowhere"} :
    FaultyCall("truncate_table", [table |-> table_name],
               truncate_table_outcome(table_name, FALSE),
               truncate_table_outcome(table_name, TRUE))

execute_script ==
  \E script \in Scripts :
    FaultyCall("execute_script", [script |-> script],
               execute_script_outcome(script, FALSE),
               execute_script_outcome(script, TRUE))

Next ==
  \/ connect
  \/ disconnect
  \/ execute_query
  \/ execute_non_query
  \/ insert
  \/ insert_many
  \/ update
  \/ delete
  \/ select
  \/ count
  \/ table_exists
  \/ get_table_columns
  \/ truncate_table
  \/ execute_script

Spec == Init /\ [][Next]_vars

\* the caller that uses the connector in a with block
NextScoped ==
  \/ __enter__
  \/ body_raises
  \/ __exit__
  \/ insert
  \/ select
  \/ count

SpecScoped == Init /\ [][NextScoped]_vars

\* the caller that empties tables with FOREIGN_KEY_CHECKS set to 0, as the
\* fixtures of the tests do
NextUnchecked ==
  \/ connect
  \/ disconnect
  \/ set_foreign_key_checks
  \/ insert
  \/ delete
  \/ count
  \/ truncate_table

SpecUnchecked == Init /\ [][NextUnchecked]_vars

\* the db fixture before a test: the tables are emptied and
\* FOREIGN_KEY_CHECKS ends at 1; a fixture that raised has changed nothing
db ==
  /\ scope.at = "out"
  /\ working' = db_outcome.working
  /\ committed' = db_outcome.committed
  /\ last' = Last("db", <<>>, db_outcome.ret, db_outcome.drv)
  /\ idle' = Idle(db_outcome.committed)
  /\ foreign_key_checks' = IF db_outcome.ret.kind = "raise"
                            THEN foreign_key_checks ELSE TRUE
  /\ UNCHANGED <<connection, cursor, sessions, cursors, scope>>

\* the tests that run on the instance of the db fixture
NextFixture ==
  \/ connect
  \/ disconnect
  \/ set_foreign_key_checks
  \/ execute_query
  \/ insert
  \/ update
  \/ db

SpecFixture == Init /\ [][NextFixture]_vars

\* insert, insert_many and update for users with a username and an email
insert_user ==
  \E data \in NamedUsers :
    /\ NextId(working, "users") <= MaxId
    /\ FaultyCall("insert", [table |-> "users", data |-> data],
                  insert_outcome("users", data, FALSE),
                  insert_outcome("users", data, TRUE))

insert_many_users ==
  \E data \in NamedBatches :
    /\ NextId(working, "users") + Len(data) - 1 <= MaxId
    /\ FaultyCall("insert_many",
                  [table |-> "users", columns |-> <<"username", "email">>,
                   data |-> data],
                  insert_many_outcome("users", <<"username", "email">>, data,
                                      FALSE),
                  insert_many_outcome("users", <<"username", "email">>, data,
                                      TRUE))

update_user ==
  \E a \in NamedUpdates :
    FaultyCall("update", a,
               update_outcome(a.table, a.data, a.condition.text,
                              a.condition.params, FALSE),
               update_outcome(a.table, a.data, a.condition.text,
                              a.condition.params, TRUE))

\* the caller that writes users only
NextUsers ==
  \/ connect
  \/ insert_user
  \/ insert_many_users
  \/ update_user
  \/ delete

SpecUsers == Init /\ [][NextUsers]_vars

\* delete of the product of an id
delete_product ==
  \E a \in {[table |-> "products",
              condition |-> [text |-> <<"id", "=", "%s">>, params |-> <<1>>]]} :
    FaultyCall("delete", a,
               delete_outcome(a.table, a.condition.text, a.condition.params,
                              FALSE),
               delete_outcome(a.table, a.condition.text, a.condition.params,
                              TRUE))

\* the caller that writes users, products and orders with
\* FOREIGN_KEY_CHECKS left at 1
NextReferences ==
  \/ connect
  \/ insert
  \/ insert_many
  \/ update
  \/ delete
  \/ delete_product

SpecReferences == Init /\ [][NextReferences]_vars

\* the caller that gives users several orders and deletes users
NextCascade ==
  \/ connect
  \/ insert
  \/ insert_orders
  \/ delete
  \/ count

SpecCascade == Init /\ [][NextCascade]_vars

RawProduct == InsertQuery("products", <<"price">>)

\* two callers, each with a DatabaseConnector of its own.  The caller that
\* is calling has its instance in connection, cursor and working, the other
\* one in idle; other_caller gives the turn to the other one, between calls
other_caller ==
  /\ scope.at = "out"
  /\ idle' = [instance |-> 3 - idle.instance, connection |-> connection,
              cursor |-> cursor, working |-> working,
              foreign_key_checks |-> foreign_key_checks]
  /\ connection' = idle.connection
  /\ cursor' = idle.cursor
  /\ working' = idle.working
  /\ foreign_key_checks' = idle.foreign_key_checks
  /\ last' = [Last("other caller", <<>>, RetNone, <<>>) EXCEPT
                !.pre = idle.working,
                !.preConnection = idle.connection,
                !.preCursor = idle.cursor]
  /\ UNCHANGED <<sessions, cursors, committed, scope>>

\* the first caller works on the users; its execute_query leaves an INSERT
\* uncommitted
users_caller ==
  /\ idle.instance = 2
  /\ \/ execute_query
     \/ insert_into("users")
     \/ delete

\* the second caller works on the products, and places an order for a
\* product that is not there; it touches no row the first caller writes,
\* so that no statement waits for a lock of the other session
products_caller ==
  /\ idle.instance = 1
  /\ \/ /\ NextId(working, "products") <= MaxProducts
        /\ DataCall("execute_query",
                    [query |-> RawProduct, params |-> <<29990>>],
                    execute_query_outcome(RawProduct, <<29990>>, FALSE))
     \/ insert_into("products")
     \/ FaultyCall("insert",
                   [table |-> "orders",
                    data |-> Order(1, MaxProducts + 1, "pending")],
                   insert_outcome("orders",
                                  Order(1, MaxProducts + 1, "pending"), FALSE),
                   insert_outcome("orders",
                                  Order(1, MaxProducts + 1, "pending"), TRUE))

NextConcurrent ==
  \/ connect
  \/ other_caller
  \/ users_caller
  \/ products_caller

SpecConcurrent == Init /\ [][NextConcurrent]_vars

---------------------------------------------------------------------------
(* Properties.  last describes the call that ended last; a data call leaves *)
(* the fields and the sessions alone, so what they are after the call is    *)
(* what they were when it was made.                                         *)

\* the call was made on a connected instance: session open, cursor open
WasConnected ==
  /\ is_connected(connection)
  /\ cursor # None
  /\ cursors[cursor] = "open"

\* the three ways a committing call ends on a connected instance
Committed == <<"execute", "commit">>

ExecuteFailed == <<"execute!", "rollback">>

CommitFailed == <<"execute", "commit!", "rollback">>

\* the row the backend would store for payload data on view
PayloadRow(view, t, data) ==
  NewRow(t, NextId(view, t), keys(data), values(data))

\* C1: execute_non_query on a connected instance either has its statement
\* accepted, commits it and returns the affected-row count, so that the
\* statement's effect is the committed data, or meets a backend error while
\* executing or while committing, rolls back and returns -1, so that nothing
\* is left uncommitted.  A statement the backend rejects never commits.
C1_NonQueryCommitsOrRollsBack ==
  (last.op = "execute_non_query" /\ WasConnected) =>
    LET r == Execute(last.pre, last.args.query, last.args.params)
    IN /\ last.drv \in {Committed, ExecuteFailed, CommitFailed}
       /\ last.drv = Committed =>
            /\ r.ok
            /\ last.ret = RetInt(r.rowcount)
            /\ committed = r.view
            /\ working = r.view
       /\ last.drv # Committed =>
            /\ last.ret = RetInt(-1)
            /\ working = committed
       /\ ~r.ok => last.drv = ExecuteFailed

\* C1 happens: a statement deleted a row and was committed
C1_Witness ==
  /\ last.op = "execute_non_query"
  /\ WasConnected
  /\ last.drv = Committed
  /\ last.ret = RetInt(1)
  /\ committed # last.preCommitted

\* C2 as the specification states it: an insert whose payload violates a
\* constraint returns None, and the table has as many rows after the call
\* as the session saw in it before the call.
C2_ViolatingInsertKeepsCount ==
  (/\ last.op = "insert"
   /\ WasConnected
   /\ ~RowOk(last.pre, last.args.table,
             PayloadRow(last.pre, last.args.table, last.args.data))) =>
    /\ last.ret = RetNone
    /\ Cardinality(working[last.args.table])
         = Cardinality(last.pre[last.args.table])

\* the users a batch of usernames cannot be added to: a NULL username, a
\* username some stored user has, or the same username twice in the batch
BatchViolates(view, data) ==
  \E i \in 1..Len(data) :
    \/ data[i][1] = NULL
    \/ \E u \in view["users"] : u.username = data[i][1]
    \/ \E j \in 1..(i - 1) : data[j][1] = data[i][1]

\* C3: insert_many on a connected instance is all-or-nothing.  If a row of
\* the batch violates a constraint the call returns -1 and the table holds
\* what was committed before the call, no row of the batch.  If no row
\* violates one, the call returns the number of rows and every row of the
\* batch is committed under a new id; only a commit the backend refuses
\* ends such a call with -1, and then too no row of the batch is kept.
C3_InsertManyAllOrNothing ==
  (last.op = "insert_many" /\ WasConnected) =>
    LET data == last.args.data
        table == last.args.table
        fresh == committed[table] \ last.pre[table]
        none == /\ last.ret = RetInt(-1)
                /\ committed = last.preCommitted
                /\ working = committed
    IN /\ BatchViolates(last.pre, data) => none /\ last.drv = ExecuteFailed
       /\ ~BatchViolates(last.pre, data) =>
            \/ none /\ last.drv = CommitFailed
            \/ /\ last.drv = Committed
               /\ last.ret = RetInt(Len(data))
               /\ working = committed
               /\ last.pre[table] \subseteq committed[table]
               /\ Cardinality(fresh) = Len(data)
               /\ \A i \in 1..Len(data) :
                    \E u \in fresh : u.username = data[i][1]

\* C3 happens: the second row of a batch repeats a stored username and the
\* first row, acceptable by itself, is not in the table
C3_Witness ==
  /\ last.op = "insert_many"
  /\ WasConnected
  /\ Len(last.args.data) = 2
  /\ BatchViolates(last.pre, last.args.data)
  /\ ~BatchViolates(last.pre, <<last.args.data[1]>>)
  /\ last.ret = RetInt(-1)
  /\ \A u \in working["users"] : u.username # last.args.data[1][1]

\* select(table, condition="id = %s", condition_params=(id,)) as the
\* instance would answer it now
SelectById(table, id) ==
  select_outcome(table, "*", <<"id", "=", "%s">>, <<id>>, "", NoLimit)

\* an insert of a payload that satisfies the constraints, on a connected
\* instance, whose commit the backend did not refuse
GoodInsert ==
  /\ last.op = "insert"
  /\ WasConnected
  /\ RowOk(last.pre, last.args.table,
           PayloadRow(last.pre, last.args.table, last.args.data))
  /\ last.drv # CommitFailed

DataOps ==
  {"execute_query", "execute_non_query", "insert", "insert_many", "update",
   "delete", "select", "count", "table_exists", "get_table_columns",
   "truncate_table", "execute_script"}

\* C5 as the specification states it: no data operation lets an exception
\* escape, in whatever state the instance is.
C5_NoExceptionEscapes ==
  last.op \in DataOps => last.ret.kind # "raise"

C7_BothOrNeither ==
  /\ (connection = None) <=> (cursor = None)
  /\ last.op = "disconnect" => connection = None /\ cursor = None

\* C7, amended: a cursor is held only where a session is held, and a session
\* is held without a cursor only after a connect that could not make its
\* cursor.  disconnect leaves both fields as they are and closes what they
\* hold: after it the instance holds no open cursor and no open session.
C7_FieldsPairedAndClosed ==
  /\ cursor # None => connection # None
  /\ (connection # None /\ cursor = None) => connection = Lost
  /\ last.op = "disconnect" =>
       /\ connection = last.preConnection
       /\ cursor = last.preCursor
       /\ cursor # None => cursors[cursor] = "closed"
       /\ ~is_connected(connection)

\* C7 happens: disconnect on a connected instance; both fields still hold
\* their objects, closed
C7_Witness ==
  /\ last.op = "disconnect"
  /\ last.drv = <<"cursor.close", "is_connected", "connection.close">>
  /\ connection # None
  /\ cursor # None
  /\ sessions[connection] = "closed"
  /\ cursors[cursor] = "closed"

\* C8: a with block is left through __exit__ alone, after a body that ended
\* normally as after a body that raised; __exit__ calls disconnect once, and
\* a session opened at entry is closed, with its cursor, once the block has
\* been left.
C8_ScopeReleases ==
  /\ (last.preScope.at \in {"body", "raised"} /\ scope.at = "out") =>
       last.op = "__exit__"
  /\ (scope.at = "out" /\ scope.opened # None) =>
       /\ sessions[scope.opened] = "closed"
       /\ cursors[scope.opened] = "closed"
  /\ last.op = "__exit__" =>
       /\ last.preScope.at \in {"body", "raised"}
       /\ scope.at = "out"
       /\ last.calls = <<"disconnect">>
       /\ scope.opened # None =>
            last.drv = <<"cursor.close", "is_connected", "connection.close">>

\* C8 happens: the body raised in a block that had opened a session, and
\* the session is closed
C8_Witness ==
  /\ last.op = "__exit__"
  /\ last.preScope.at = "raised"
  /\ scope.opened # None
  /\ sessions[scope.opened] = "closed"

\* the statement and the parameters of the select or execute_query that
\* ended last
LastQuery ==
  IF last.op = "select"
  THEN SelectQuery(last.args.table, "*", last.args.condition.text,
                   last.args.order_by, last.args.limit)
  ELSE last.args.query

LastParams ==
  IF last.op = "select" THEN last.args.condition.params ELSE last.args.params

\* C9: execute_query, and select through it, on an instance that holds a
\* cursor returns the rows of a statement that succeeds, the empty sequence
\* when it matches none, and returns None only when the driver raised an
\* error: the statement failed, or it has no result set to fetch.
C9_EmptyIsNotFailure ==
  (last.op \in {"execute_query", "select"} /\ cursor # None) =>
    LET r == Execute(last.pre, LastQuery, LastParams)
        open == cursors[cursor] = "open"
    IN /\ last.ret.kind \in {"list", "None"}
       /\ last.ret.kind = "list" =>
            open /\ r.ok /\ last.ret.rows = r.rows
            /\ last.drv = <<"execute", "fetchall">>
       /\ last.ret.kind = "None" =>
            /\ last.drv \in {<<"execute!">>, <<"execute", "fetchall!">>}
            /\ last.drv = <<"execute!">> <=> (~open \/ ~r.ok)
            /\ last.drv = <<"execute", "fetchall!">> => LastQuery[1] # "SELECT"

\* C9 happens: a select that matches no row returns the empty sequence
C9_Witness ==
  /\ last.op = "select"
  /\ WasConnected
  /\ last.args.table = "users"
  /\ last.args.condition.text # <<>>
  /\ last.pre["users"] # {}
  /\ last.ret = RetRows(<<>>)

\* the failure sentinel of each mutating method
Sentinel(op) ==
  CASE op = "insert" -> RetNone
    [] op \in {"truncate_table", "execute_script"} -> RetBool(FALSE)
    [] OTHER -> RetInt(-1)

\* C10 as the specification states it: a mutating call that returns its
\* failure sentinel leaves the data committed before the call as the stored
\* data, and nothing uncommitted in the session.
C10_FailureLeavesNoPartialState ==
  (/\ last.op \in {"insert", "insert_many", "update", "delete",
                   "execute_non_query", "truncate_table", "execute_script"}
   /\ last.ret = Sentinel(last.op)) =>
    /\ committed = last.preCommitted
    /\ working = committed

\* the calls that commit their statement
NonQueryOps == {"execute_non_query", "insert", "insert_many", "update", "delete"}

\* C11 as the specification states it: a non-query call commits or rolls
\* back the changes of its own statement only.  A row another call of the
\* instance wrote and left uncommitted is not committed by this call, and is
\* still in the session when this call has rolled back.
C11_OwnTransactionOnly ==
  (last.op \in NonQueryOps /\ WasConnected) =>
    \A t \in Tables :
      \A row \in last.pre[t] \ last.preCommitted[t] :
        /\ row \notin committed[t]
        /\ last.ret = Sentinel(last.op) => row \in working[t]

\* the statement of the update that ended last and what it was run with
LastUpdate ==
  [query |-> UpdateQuery(last.args.table, last.args.data,
                         last.args.condition.text),
   params |-> values(last.args.data) \o last.args.condition.params]

\* an update on a connected instance whose statement the backend accepts
\* and whose condition no row of the table satisfies
ZeroMatchUpdate ==
  /\ last.op = "update"
  /\ WasConnected
  /\ Execute(last.pre, LastUpdate.query, LastUpdate.params).ok
  /\ \A row \in last.pre[last.args.table] :
       row[last.args.condition.text[1]] # last.args.condition.params[1]

\* C12 as the specification states it: an update whose condition matches no
\* row returns 0 and leaves every row of every table as it was, in the
\* session and in the stored data.
C12_ZeroMatchUpdateChangesNothing ==
  ZeroMatchUpdate =>
    /\ last.ret = RetInt(0)
    /\ working = last.pre
    /\ committed = last.preCommitted

\* count(table, condition, condition_params) as the instance would answer it
\* now
CountNow(table, condition) ==
  count_outcome(table, condition.text, condition.params)

\* C13: after a delete on a connected instance that did not return -1, a
\* count on the same table with the same condition and parameters returns
\* 0; a delete whose condition no row satisfies returns 0, unless the
\* backend refused its commit.
C13_DeleteThenCountIsZero ==
  (last.op = "delete" /\ WasConnected) =>
    LET hit == {row \in last.pre[last.args.table] :
                  /\ last.args.condition.params # <<>>
                  /\ row[last.args.condition.text[1]]
                       = last.args.condition.params[1]}
    IN /\ last.ret # RetInt(-1) =>
            /\ last.ret = RetInt(Cardinality(hit))
            /\ CountNow(last.args.table, last.args.condition).ret = RetInt(0)
       /\ (last.args.condition.params # <<>> /\ hit = {}) =>
            last.ret = RetInt(0) \/ last.drv = CommitFailed

\* C13 happens: a delete removed a stored user, and the count by the same
\* condition is 0 while another user is still stored
C13_Witness ==
  /\ last.op = "delete"
  /\ WasConnected
  /\ last.args.table = "users"
  /\ last.ret = RetInt(1)
  /\ working["users"] # {}
  /\ CountNow("users", last.args.condition).ret = RetInt(0)

\* C14 as the specification states it: select with limit=N returns at most
\* N rows for every N >= 0, and exactly N when at least N rows match.
C14_LimitBoundsRows ==
  (/\ last.op = "select"
   /\ WasConnected
   /\ last.args.limit # NoLimit
   /\ last.ret.kind = "list") =>
    LET hit == Matching(last.pre, last.args.table, last.args.condition.text,
                        last.args.condition.params)
    IN /\ Len(last.ret.rows) <= last.args.limit
       /\ Cardinality(hit) >= last.args.limit =>
            Len(last.ret.rows) = last.args.limit

\* C15: count on an instance that holds a cursor returns -1 exactly when
\* the query failed (closed cursor, or a statement the backend rejects).
\* When the query succeeds it returns the number of rows that satisfy the
\* condition, 0 when none does, which is the number of rows a select with
\* the same table and condition returns.
C15_CountSentinelOnlyOnFailure ==
  (last.op = "count" /\ cursor # None) =>
    LET cond == last.args.condition
        r == Execute(last.pre, CountQuery(last.args.table, cond.text),
                     cond.params)
        failed == cursors[cursor] # "open" \/ ~r.ok
        hit == {row \in last.pre[last.args.table] :
                  cond.text = <<>> \/ row[cond.text[1]] = cond.params[1]}
        sel == select_outcome(last.args.table, "*", cond.text, cond.params,
                              "", NoLimit)
    IN /\ last.ret.kind = "int"
       /\ last.ret = RetInt(-1) <=> failed
       /\ ~failed =>
            /\ last.ret = RetInt(Cardinality(hit))
            /\ sel.ret.kind = "list"
            /\ Len(sel.ret.rows) = last.ret.n

\* C15 happens: a count by a condition that no stored user satisfies
\* returns 0
C15_Witness ==
  /\ last.op = "count"
  /\ WasConnected
  /\ last.args.condition.text # <<>>
  /\ last.pre["users"] # {}
  /\ last.ret = RetInt(0)

\* C16: truncate_table on a connected instance, for a table of the schema
\* that no FOREIGN KEY references or with FOREIGN_KEY_CHECKS set to 0 by
\* the caller, returns True, and a count on that table then returns 0,
\* whatever rows the table held.
C16_TruncateEmptiesTable ==
  (/\ last.op = "truncate_table"
   /\ WasConnected
   /\ last.args.table \in Tables
   /\ Referenced(last.args.table) => ~foreign_key_checks) =>
    /\ last.ret = RetBool(TRUE)
    /\ working[last.args.table] = {}
    /\ committed[last.args.table] = {}
    /\ CountNow(last.args.table, NoCondition).ret = RetInt(0)

\* C16 happens: the users table, which orders references, held a user with
\* an order and is emptied while FOREIGN_KEY_CHECKS is 0
C16_Witness ==
  /\ last.op = "truncate_table"
  /\ WasConnected
  /\ last.args.table = "users"
  /\ ~foreign_key_checks
  /\ last.pre["users"] # {}
  /\ last.pre["orders"] # {}
  /\ last.ret = RetBool(TRUE)
  /\ CountNow("users", NoCondition).ret = RetInt(0)

\* the positions of the delimiters of a script, with both ends of it
Cuts(script) ==
  {0, Len(script) + 1} \cup {i \in 1..Len(script) : script[i] = ";"}

\* the text between cut a and the next cut, without the blanks around it
Between(script, a) ==
  LET b == CHOOSE c \in Cuts(script) :
             c > a /\ \A d \in Cuts(script) : d > a => c <= d
      inside == {i \in (a + 1)..(b - 1) : script[i] # " "}
  IN IF inside = {} THEN <<>>
     ELSE LET lo == CHOOSE i \in inside : \A j \in inside : i <= j
              hi == CHOOSE i \in inside : \A j \in inside : j <= i
          IN SubSeq(script, lo, hi)

\* the non-empty trimmed segments of a script, in script order
Segments(script) ==
  LET starts == SetToSeq(Cuts(script) \ {Len(script) + 1})
      all == [k \in 1..Len(starts) |-> Between(script, starts[k])]
  IN SelectSeq(all, LAMBDA seg : seg # <<>>)

RECURSIVE Accepted(_, _)
\* how many of the statements stmts, run in order from view, the backend
\* accepts before it refuses one
Accepted(view, stmts) ==
  IF stmts = <<>> THEN 0
  ELSE LET r == Execute(view, Head(stmts), <<>>)
       IN IF r.ok THEN 1 + Accepted(r.view, Tail(stmts)) ELSE 0

\* C17: execute_script on a connected instance sends to the backend, in
\* script order, exactly the non-empty trimmed segments between the ';' of
\* the script, up to the first one the backend refuses: a last statement
\* with no delimiter after it is sent, empty segments send nothing.  When
\* every statement is accepted the call commits and returns True, unless
\* the backend refuses the commit.
C17_ScriptRunsItsSegments ==
  (last.op = "execute_script" /\ WasConnected) =>
    LET segs == Segments(last.args.script)
        n == Accepted(last.pre, segs)
    IN /\ n = Len(segs) =>
            /\ last.sent = segs
            /\ \/ /\ last.ret = RetBool(TRUE)
                  /\ last.drv = [i \in 1..(n + 1) |->
                                   IF i <= n THEN "execute" ELSE "commit"]
               \/ /\ last.ret = RetBool(FALSE)
                  /\ last.drv[n + 1] = "commit!"
       /\ n < Len(segs) =>
            /\ last.sent = SubSeq(segs, 1, n + 1)
            /\ last.ret = RetBool(FALSE)
       /\ segs = <<>> =>
            /\ last.sent = <<>>
            /\ last.drv \in {<<"commit">>, <<"commit!", "rollback">>}

\* C17 happens: a script whose last statement has no delimiter after it
\* ran both of its statements, and the first of them deleted a user
C17_Witness ==
  /\ last.op = "execute_script"
  /\ WasConnected
  /\ last.args.script[Len(last.args.script) - 1] = "orders"
  /\ Len(last.sent) = 2
  /\ last.sent[2] = <<"TRUNCATE TABLE", "orders">>
  /\ last.ret = RetBool(TRUE)
  /\ last.pre["users"] # working["users"]

\* C18 as the specification states it: when a statement of a script fails
\* on a connected instance, the statements after it are not sent, no commit
\* is issued, a rollback is issued, the call returns False, and what the
\* statements before it changed is not persisted: the stored data is what
\* it was before the call.
C18_FailedScriptPersistsNothing ==
  (/\ last.op = "execute_script"
   /\ WasConnected
   /\ Accepted(last.pre, Segments(last.args.script))
        < Len(Segments(last.args.script))) =>
    LET k == Accepted(last.pre, Segments(last.args.script)) + 1
    IN /\ last.sent = SubSeq(Segments(last.args.script), 1, k)
       /\ last.drv = [i \in 1..(k + 1) |->
                        IF i < k THEN "execute"
                        ELSE IF i = k THEN "execute!" ELSE "rollback"]
       /\ last.ret = RetBool(FALSE)
       /\ committed = last.preCommitted

\* C19 as the specification states it: of the sessions the instance has
\* opened, none but the one it holds is open.
C19_OneLiveSession ==
  \A s \in Sessions : sessions[s] = "open" => s = connection

\* C20: disconnect raises nothing and leaves both fields as they are.  On
\* an instance no connect of which has succeeded it closes nothing: no
\* session and no cursor changes.  On a connected instance it closes the
\* cursor first and the session second.
C20_DisconnectNoOpUnlessConnected ==
  [][last'.op = "disconnect" =>
       /\ last'.ret = RetNone
       /\ connection' = connection
       /\ cursor' = cursor
       /\ Opened = 0 =>
            /\ last'.drv \in {<<>>, <<"is_connected">>}
            /\ sessions' = sessions
            /\ cursors' = cursors
       /\ WasConnected =>
            /\ last'.drv = <<"cursor.close", "is_connected", "connection.close">>
            /\ cursors'[cursor] = "closed"
            /\ sessions'[connection] = "closed"]_vars

\* C20 happens: disconnect after a connect that failed on a fresh instance,
\* which holds a session that was lost and no cursor; nothing was closed
C20_Witness ==
  /\ last.op = "disconnect"
  /\ Opened = 0
  /\ last.preConnection = Lost
  /\ cursor = None
  /\ last.drv = <<"is_connected">>

\* the users the delete that ended last removed from the session's rows
Removed == IdsOf(last.pre, "users") \ IdsOf(working, "users")

\* count('orders', 'user_id = %s', (id,)) as the instance would answer it now
OrdersOf(id) == CountNow("orders", [text |-> <<"user_id", "=", "%s">>,
                                    params |-> <<id>>])

\* C21: with foreign-key enforcement on, after a delete on a connected
\* instance has removed a user, count on orders with the condition
\* 'user_id = <that user's id>' returns 0 and no stored order names the
\* user, however many orders named the user before.
C21_CascadeDelete ==
  (/\ last.op = "delete"
   /\ WasConnected
   /\ foreign_key_checks
   /\ last.args.table = "users"
   /\ last.ret.kind = "int"
   /\ last.ret.n >= 1) =>
    /\ Removed # {}
    /\ \A id \in Removed :
         /\ OrdersOf(id).ret = RetInt(0)
         /\ \A o \in working["orders"] \cup committed["orders"] :
              o.user_id # id

\* C21 happens: the deleted user had two orders, and none is left
C21_Witness ==
  /\ last.op = "delete"
  /\ WasConnected
  /\ last.ret = RetInt(1)
  /\ \E id \in Removed :
       /\ Cardinality({o \in last.pre["orders"] : o.user_id = id})
            = MaxUserOrders
       /\ OrdersOf(id).ret = RetInt(0)

\* what a session with the rows view has not committed
Uncommitted(view, c) ==
  [t \in Tables |-> [written |-> view[t] \ c[t], removed |-> c[t] \ view[t]]]

\* C22: two instances hold a session each.  Under every interleaving of
\* the calls of two callers, a call through one instance leaves what the
\* other instance's session has not committed as it is, neither committed
\* nor rolled back; an insert that returns an id has its row committed, and
\* a delete that returns a row count has the rows it matched gone from the
\* committed data.
C22_SessionsIndependent ==
  [][last'.op \in DataOps =>
       /\ Uncommitted(idle'.working, committed')
            = Uncommitted(idle.working, committed)
       /\ (last'.op = "insert" /\ last'.ret.kind = "int") =>
            \E row \in committed'[last'.args.table] \ committed[last'.args.table] :
              row.id = last'.ret.n
       /\ (last'.op = "delete" /\ last'.ret.kind = "int" /\ last'.ret.n >= 0) =>
            \A row \in committed'[last'.args.table] :
              row[last'.args.condition.text[1]]
                # last'.args.condition.params[1]]_vars

\* C22 happens: an insert through one instance is committed while the
\* session of the other instance holds a row it has not committed, and the
\* row is still uncommitted there
C22_Witness ==
  /\ last.op = "insert"
  /\ last.ret.kind = "int"
  /\ committed # last.preCommitted
  /\ idle.connection # None
  /\ \E t \in Tables : idle.working[t] \ committed[t] # {}

\* C23 as the specification states it: the statement of a select is
\* SELECT <columns> FROM <table> followed by WHERE, ORDER BY and LIMIT in
\* that order, each of them there exactly when its argument was supplied.
C23_ClauseIffSupplied ==
  last.op = "select" =>
    LET q == LastQuery
        w == IndexOf(q, "WHERE")
        o == IndexOf(q, "ORDER BY")
        l == IndexOf(q, "LIMIT")
    IN /\ SubSeq(q, 1, 4) = <<"SELECT", "*", "FROM", last.args.table>>
       /\ w > 0 <=> last.args.condition.text # <<>>
       /\ o > 0 <=> last.args.order_by # ""
       /\ l > 0 <=> last.args.limit # NoLimit
       /\ (w > 0 /\ o > 0) => w < o
       /\ (w > 0 /\ l > 0) => w < l
       /\ (o > 0 /\ l > 0) => o < l

\* C24: the statement of an update has one '<col> = %s' per payload key,
\* in payload order, before the WHERE, and the payload values are bound to
\* them in that order, the condition parameters after them.  On a connected
\* instance an update that is committed has given every row the condition
\* parameter selects the payload's values, column by column, and has left
\* the other rows alone; a statement the backend accepts with the values
\* bound in this order is not rejected; an update with fewer or more
\* parameters than placeholders returns -1.
C24_UpdateBindsPayloadThenCondition ==
  (last.op = "update" /\ WasConnected) =>
    LET data == last.args.data
        cond == last.args.condition
        t == last.args.table
        q == LastUpdate.query
    IN /\ Len(q) = 4 + 3 * Len(data) + Len(cond.text)
       /\ \A i \in 1..Len(data) :
            SubSeq(q, 3 * i + 1, 3 * i + 3) = <<data[i][1], "=", "%s">>
       /\ q[3 * Len(data) + 4] = "WHERE"
       /\ Len(data) + Len(cond.params) # Occurrences(q, "%s") =>
            last.ret = RetInt(-1)
       /\ Execute(last.pre, q, values(data) \o cond.params).ok =>
            last.drv \in {Committed, CommitFailed}
       /\ last.drv = Committed =>
            /\ Cardinality(working[t]) = Cardinality(last.pre[t])
            /\ \A old \in last.pre[t] :
                 \E new \in working[t] :
                   /\ new.id = old.id
                   /\ IF old[cond.text[1]] = cond.params[1]
                      THEN \A c \in Columns(t) :
                             new[c] = IF \E i \in 1..Len(data) : data[i][1] = c
                                      THEN data[CHOOSE i \in 1..Len(data) :
                                                  data[i][1] = c][2]
                                      ELSE old[c]
                      ELSE new = old

\* C24 happens: an update with two payload values and one condition
\* parameter changed both columns of the order the parameter names
C24_Witness ==
  /\ last.op = "update"
  /\ WasConnected
  /\ Len(last.args.data) = 2
  /\ last.drv = Committed
  /\ last.ret = RetInt(1)
  /\ \E o \in last.pre["orders"] : o.id = 1 /\ o.user_id # MaxId
  /\ \E o \in working["orders"] :
       o.id = 1 /\ o.user_id = MaxId /\ o.product_id = 1

\* the calls with the names of the call that ended last (table, column
\* names, condition text, order_by, limit) and any of the values the
\* callers pass, each with the statement text it hands to the cursor
SameNames ==
  CASE last.op = "insert" ->
         {insert_outcome(last.args.table, d, FALSE).sent :
            d \in {e \in Data(last.args.table) :
                     keys(e) = keys(last.args.data)}}
    [] last.op = "insert_many" ->
         {insert_many_outcome(last.args.table, last.args.columns, b, FALSE).sent :
            b \in UserBatches}
    [] last.op = "update" ->
         {update_outcome(a.table, a.data, a.condition.text, a.condition.params,
                         FALSE).sent :
            a \in {b \in UpdateArgs :
                     /\ b.table = last.args.table
                     /\ keys(b.data) = keys(last.args.data)
                     /\ b.condition.text = last.args.condition.text}}
    [] last.op = "delete" ->
         {delete_outcome(a.table, a.condition.text, a.condition.params,
                         FALSE).sent :
            a \in {b \in DeleteArgs :
                     /\ b.table = last.args.table
                     /\ b.condition.text = last.args.condition.text}}
    [] last.op = "select" ->
         {select_outcome(a.table, "*", a.condition.text, a.condition.params,
                         a.order_by, a.limit).sent :
            a \in {b \in SelectArgs :
                     /\ b.table = last.args.table
                     /\ b.condition.text = last.args.condition.text
                     /\ b.order_by = last.args.order_by
                     /\ b.limit = last.args.limit}}
    [] last.op = "count" ->
         {count_outcome(last.args.table, c.text, c.params).sent :
            c \in {d \in ById \cup {NoCondition, Unbound} :
                     d.text = last.args.condition.text}}

\* C25: values are not written into the statement text.  For insert,
\* insert_many, update, delete, select and count on an instance that holds
\* a cursor, the call hands one statement to the cursor, and every call
\* with the same table, column names, condition text, order_by and limit
\* hands it the same text, whatever payload values and condition
\* parameters it is given.
C25_StatementTextIgnoresValues ==
  (/\ last.op \in {"insert", "insert_many", "update", "delete", "select",
                   "count"}
   /\ cursor # None) =>
    /\ Len(last.sent) = 1
    /\ SameNames = {last.sent}

\* C25 happens: an insert of one username hands the cursor the text that
\* an insert of another username hands it
C25_Witness ==
  /\ last.op = "insert"
  /\ WasConnected
  /\ last.args.data = <<<<"username", "testuser">>>>
  /\ last.sent = <<InsertQuery("users", <<"username">>)>>
  /\ insert_outcome("users", <<<<"username", "other">>>>, FALSE).sent = last.sent

\* C26: on an instance that is used through with blocks, __enter__ calls
\* connect once and drops its result, and the body runs whichever way the
\* connect ended.  In a block whose connect failed the instance holds no
\* open session with an open cursor, every operation of the body, the
\* first one included, fails (it raises or returns its failure value), and
\* the block is left through __exit__, which calls disconnect.
C26_FailedEnterStillRunsBody ==
  /\ last.op = "__enter__" =>
       /\ last.calls = <<"connect">>
       /\ last.drv \in {<<"connect", "cursor">>, <<"connect", "cursor!">>,
                        <<"connect!">>}
       /\ last.ret.kind = "self"
       /\ scope.at = "body"
       /\ scope.opened = None <=> last.drv # <<"connect", "cursor">>
  /\ (scope.at \in {"body", "raised"} /\ scope.opened = None) => ~WasConnected
  /\ (last.op \in DataOps /\ last.preScope.at = "body" /\ scope.opened = None) =>
       \/ last.ret.kind = "raise"
       \/ last.op \in {"insert", "select"} /\ last.ret = RetNone
       \/ last.op = "count" /\ last.ret = RetInt(-1)
  /\ (last.preScope.at \in {"body", "raised"} /\ scope.at = "out") =>
       last.op = "__exit__" /\ last.calls = <<"disconnect">>

\* C26 happens: the connect of the entry was refused on a new instance, and
\* the first operation of the body raised
C26_Witness ==
  /\ last.op \in DataOps
  /\ last.preScope.at = "body"
  /\ scope.opened = None
  /\ connection = None
  /\ last.ret = Raise("AttributeError")
  /\ scope.at = "raised"

\* C28: __exit__ returns a false value, so that an exception raised in the
\* body of the with block is raised again to the caller of the block, and
\* that after disconnect has run; a body that ended normally leaves no
\* exception.
C28_ExitPropagates ==
  last.op = "__exit__" =>
    /\ Falsy(last.ret)
    /\ last.calls = <<"disconnect">>
    /\ scope.reraised <=> last.preScope.at = "raised"
    /\ scope.opened # None =>
         last.drv = <<"cursor.close", "is_connected", "connection.close">>

\* C28 happens: the body raised in a block that had opened a session; the
\* session is closed and the exception goes on to the caller
C28_Witness ==
  /\ last.op = "__exit__"
  /\ last.preScope.at = "raised"
  /\ scope.reraised
  /\ scope.opened # None
  /\ sessions[scope.opened] = "closed"

\* C27: the db fixture, run on its connected instance, leaves a clean
\* state: whatever rows users, products and orders held, orders that
\* reference users and products included, and whatever was not yet
\* committed, count then returns 0 for each of the three tables, nothing is
\* stored, and FOREIGN_KEY_CHECKS is 1 again.
C27_FixtureCleansState ==
  (last.op = "db" /\ WasConnected) =>
    /\ last.ret.kind = "self"
    /\ \A t \in Tables :
         /\ CountNow(t, NoCondition).ret = RetInt(0)
         /\ working[t] = {}
         /\ committed[t] = {}
    /\ foreign_key_checks

\* C27 happens: the three tables held rows, an order referencing a user and
\* a product among them, when the fixture ran
C27_Witness ==
  /\ last.op = "db"
  /\ WasConnected
  /\ \A t \in Tables : last.pre[t] # {}
  /\ \A t \in Tables : CountNow(t, NoCondition).ret = RetInt(0)
  /\ foreign_key_checks

\* two of the users share a username or an email
Clash(users) ==
  \E a, b \in users :
    /\ a.id # b.id
    /\ \/ a.username = b.username
       \/ a.email # NULL /\ a.email = b.email

\* the value a dict gives column c, NULL when it names no such column
Named(data, c) ==
  IF \E i \in 1..Len(data) : data[i][1] = c
  THEN data[CHOOSE i \in 1..Len(data) : data[i][1] = c][2]
  ELSE NULL

\* the users there would be if the last call's statement were carried out
\* with no UNIQUE constraint; the new rows get ids no stored user has
Intended ==
  LET users == last.pre["users"]
      a == last.args
  IN CASE last.op = "insert" ->
            users \cup {[id |-> 0, username |-> Named(a.data, "username"),
                         email |-> Named(a.data, "email")]}
       [] last.op = "insert_many" ->
            users \cup {[id |-> 0 - i, username |-> a.data[i][1],
                         email |-> IF Len(a.columns) > 1 THEN a.data[i][2]
                                   ELSE NULL] : i \in 1..Len(a.data)}
       [] last.op = "update" ->
            {IF a.condition.params # <<>> /\ r.id = a.condition.params[1]
             THEN [r EXCEPT
                     !.username = IF \E i \in 1..Len(a.data) :
                                       a.data[i][1] = "username"
                                  THEN Named(a.data, "username") ELSE @,
                     !.email = IF \E i \in 1..Len(a.data) :
                                    a.data[i][1] = "email"
                               THEN Named(a.data, "email") ELSE @]
             ELSE r : r \in users}
       [] OTHER -> users

\* C29: whatever insert, insert_many, update and delete calls were made on
\* the users table, no two stored users share a username and no two share
\* an email, in the session's view and in the committed rows; and a call on
\* a connected instance whose statement would leave such a pair returns its
\* failure value (None for insert, -1 for insert_many and update) and
\* stores nothing.
C29_UsersStayUnique ==
  /\ ~Clash(working["users"])
  /\ ~Clash(committed["users"])
  /\ (/\ last.op \in {"insert", "insert_many", "update"}
      /\ last.args.table = "users"
      /\ WasConnected
      /\ Clash(Intended)) =>
       /\ last.ret = IF last.op = "insert" THEN RetNone ELSE RetInt(-1)
       /\ working = last.pre
       /\ committed = last.preCommitted

\* C29 happens: an insert of a new username with the email a stored user
\* has is refused
C29_Witness ==
  /\ last.op = "insert"
  /\ last.args.table = "users"
  /\ WasConnected
  /\ \A u \in last.pre["users"] :
       u.username # Named(last.args.data, "username")
  /\ \E u \in last.pre["users"] : u.email = Named(last.args.data, "email")
  /\ last.ret = RetNone
  /\ working = last.pre

\* every order of the view names a user and a product of the view
Referential(view) ==
  \A o \in view["orders"] :
    /\ o.user_id \in IdsOf(view, "users")
    /\ o.product_id \in IdsOf(view, "products")

\* C30: with FOREIGN_KEY_CHECKS at 1, whatever insert, insert_many, update
\* and delete calls were made, every stored order names a stored user and a
\* stored product, in the session's view and in the committed rows; and an
\* insert into orders on a connected instance whose user_id or product_id
\* no stored row has returns None and stores nothing.
C30_OrdersReferenceStoredRows ==
  foreign_key_checks =>
    /\ Referential(working)
    /\ Referential(committed)
    /\ (/\ last.op = "insert"
        /\ last.args.table = "orders"
        /\ WasConnected
        /\ \/ Named(last.args.data, "user_id") \notin IdsOf(last.pre, "users")
           \/ Named(last.args.data, "product_id")
                \notin IdsOf(last.pre, "products")) =>
         /\ last.ret = RetNone
         /\ working = last.pre
         /\ committed = last.preCommitted

\* C30 happens: an insert of an order for a stored user and a product that
\* is not stored is refused
C30_Witness ==
  /\ last.op = "insert"
  /\ last.args.table = "orders"
  /\ WasConnected
  /\ foreign_key_checks
  /\ Named(last.args.data, "user_id") \in IdsOf(last.pre, "users")
  /\ Named(last.args.data, "product_id") \notin IdsOf(last.pre, "products")
  /\ last.ret = RetNone
  /\ working = last.pre

====
